---- MODULE Spec2Model ----
(***************************************************************************)
(* The resumable chunked upload engine of nascraft: the metadata tables    *)
(* (upload_file_meta, upload_progress, system_config), the uploads/        *)
(* directory, and the two mutating handlers submit_file_metadata and       *)
(* upload_file, the latter as one process per call with one step per       *)
(* suspension point that touches shared state.                             *)
(***************************************************************************)
EXTENDS Integers, Sequences, FiniteSets, TLC

\* ------------------------------------------------------------------ bounds
\* Number of submit_file_metadata calls that commit a row.
MaxFiles == 1
\* Number of upload_file calls (one process each).
NumCalls == 2
\* Largest total_size a client registers and largest Content-Length it sends.
MaxTotal == 2
\* Largest buffer the payload stream hands to the write loop.
MaxBuf == 2
\* SpecPlan: number of registrations and largest total_size.
MaxPlanFiles == 2
MaxPlanTotal == 6
\* SpecStatus: the last second of the clock and the number of status queries.
MaxClock == 122
MaxQueries == 2
\* SpecDownload: number of download_file calls.
MaxDownloads == 2
\* Files registered in SpecShared.
MaxSharedFiles == 2
\* SpecResume: largest total_size and chunk_size.
MaxResumeTotal == 3
\* SpecPage: largest small value of the query parameters page and page_size.
MaxPage == 4

\* ------------------------------------------------------- program constants
\* upload_file_meta.status values used by upload_file.
REGISTERED == 0
PROCESSING == 1
COMPLETED == 2
\* The stride of merge_chunks' loop over staging files.
MergeStep == 1048576
\* get_upload_status: a chunk row is stale when now - last_updated exceeds this.
StaleSeconds == 60

Procs == 1..NumCalls

VARIABLES
    system_config,      \* table system_config: config_key -> config_value
    upload_file_meta,   \* table upload_file_meta: file_id -> row
    upload_progress,    \* table upload_progress: <<file_id, start_offset>> -> row
    files,              \* the uploads/ directory: path -> [ino, data]
    call,               \* upload_file calls: process -> locals and position
    submit_response,    \* what the last submit_file_metadata call returned
    merges,             \* file_id -> number of merge_chunks invocations so far
    clock,              \* Utc::now().timestamp(), in seconds
    status_response,    \* what the last get_upload_status call returned
    download_response,   \* what the last download_file call returned
    list_response       \* what the last get_uploaded_files call returned

vars == <<system_config, upload_file_meta, upload_progress, files, call,
          submit_response, merges, clock, status_response, download_response,
          list_response>>

\* ------------------------------------------------------------ pure helpers
Min(a, b) == IF a <= b THEN a ELSE b

RECURSIVE SumOver(_, _)
\* Sum of f[x] over the finite set S.
SumOver(f, S) ==
    IF S = {} THEN 0
    ELSE LET x == CHOOSE y \in S : TRUE IN f[x] + SumOver(f, S \ {x})

\* Characters the sanitize_filename crate removes (path separators here).
IllegalChars == {"/"}

\* sanitize(name): the name without its illegal characters.
Sanitize(name) == SelectSeq(name, LAMBDA c : c \notin IllegalChars)

\* The staging path as it would be without the start_offset suffix.
ChunkFilePathShared(safe_filename, start_offset) ==
    <<"uploads/">> \o safe_filename \o <<"_chunk_">>

\* format!("uploads/{}_chunk_{}", safe_filename, start_offset)
ChunkFilePath(safe_filename, start_offset) ==
    <<"uploads/">> \o safe_filename \o <<"_chunk_", ToString(start_offset)>>

\* format!("uploads/{}", safe_filename)
FinalFilePath(safe_filename) == <<"uploads/">> \o safe_filename

\* Digests are modelled as injective functions of the hashed bytes; the empty
\* string stored by initialize_upload_progress is EmptyChecksum.
Md5(bytes) == [alg |-> "md5", of |-> bytes]
Sha256(bytes) == [alg |-> "sha256", of |-> bytes]
EmptyChecksum == [alg |-> "", of |-> <<>>]

\* The content a client means to upload: the byte at absolute position i
\* (0-based) is i + 1.  A corrupt body carries 0 in every position.
IntendedByte(pos) == pos + 1
IntendedContent(total_size) == [i \in 1..total_size |-> IntendedByte(i - 1)]
CorruptContent(total_size) == [i \in 1..total_size |-> 0]

\* The k bytes of a request body that follow its first `sent` bytes, for a
\* body that starts at absolute position start_pos.
BodyBytes(intact, start_pos, sent, k) ==
    [i \in 1..k |-> IF intact THEN IntendedByte(start_pos + sent + i - 1) ELSE 0]

\* A write as it would be if the file were opened for appending: the bytes go
\* to the end whatever the handle's offset.
WriteAtEnd(data, pos, bytes) == data \o bytes

\* A file's bytes after writing `bytes` at offset pos (0-based): a write
\* past the end leaves a hole of zero bytes, bytes after the written range
\* are kept.
WriteAt(data, pos, bytes) ==
    LET newLen == IF pos + Len(bytes) > Len(data) THEN pos + Len(bytes) ELSE Len(data)
    IN  [i \in 1..newLen |->
            IF i > pos /\ i <= pos + Len(bytes) THEN bytes[i - pos]
            ELSE IF i <= Len(data) THEN data[i]
            ELSE 0]

\* ------------------------------------------------------------ system_config
\* config_value strings that parse::<u64>() accepts, with their values.
DecimalStrings == {"0", "1", "2", "3"}
DecimalValue(s) == CASE s = "0" -> 0 [] s = "1" -> 1 [] s = "2" -> 2 [] s = "3" -> 3

\* check_system_initialized as it would be if a missing row passed.
CheckSystemInitializedLenient(cfg) ==
    \/ "system_initialized" \notin DOMAIN cfg
    \/ cfg["system_initialized"] = "success"

\* check_system_initialized: Ok iff the row exists and holds "success".
CheckSystemInitialized(cfg) ==
    /\ "system_initialized" \in DOMAIN cfg
    /\ cfg["system_initialized"] = "success"

\* fetch_chunk_size: Err when the row is missing or does not parse.
FetchChunkSize(cfg) ==
    IF "chunk_size" \notin DOMAIN cfg THEN [ok |-> FALSE, v |-> 0]
    ELSE IF cfg["chunk_size"] \notin DecimalStrings THEN [ok |-> FALSE, v |-> 0]
    ELSE [ok |-> TRUE, v |-> DecimalValue(cfg["chunk_size"])]

\* ------------------------------------------------------------ chunk planner
\* num_chunks = (total_size + chunk_size - 1) / chunk_size
NumChunks(total_size, chunk_size) == (total_size + chunk_size - 1) \div chunk_size

\* PlanChunk as it would be without the .min(total_size) clamp.
PlanChunkUnclamped(i, total_size, chunk_size) ==
    [start_offset |-> i * chunk_size,
     end_offset |-> (i + 1) * chunk_size - 1,
     chunk_size |-> chunk_size]

\* The i-th ChunkInfo (i from 0) computed by submit_file_metadata's loop.
PlanChunk(i, total_size, chunk_size) ==
    LET start_offset == i * chunk_size
        end_offset == Min((i + 1) * chunk_size, total_size) - 1
    IN  [start_offset |-> start_offset,
         end_offset |-> end_offset,
         chunk_size |-> end_offset - start_offset + 1]

\* The chunks vector returned by submit_file_metadata.
PlanChunks(total_size, chunk_size) ==
    [j \in 1..NumChunks(total_size, chunk_size) |->
        PlanChunk(j - 1, total_size, chunk_size)]

\* ------------------------------------------------------------ store access
\* fetch_file_record as it would be if a missing row gave an empty record.
FetchFileRecordLenient(meta, file_id) ==
    IF file_id \in DOMAIN meta
    THEN [ok |-> TRUE, filename |-> meta[file_id].filename,
          checksum |-> meta[file_id].checksum,
          total_size |-> meta[file_id].total_size,
          status |-> meta[file_id].status,
          file_path |-> meta[file_id].file_path]
    ELSE [ok |-> TRUE, filename |-> <<>>, checksum |-> EmptyChecksum,
          total_size |-> 0, status |-> 0, file_path |-> <<>>]

\* fetch_file_record: Err when no row has this file_id.
FetchFileRecord(meta, file_id) ==
    IF file_id \in DOMAIN meta
    THEN [ok |-> TRUE, filename |-> meta[file_id].filename,
          checksum |-> meta[file_id].checksum,
          total_size |-> meta[file_id].total_size,
          status |-> meta[file_id].status,
          file_path |-> meta[file_id].file_path]
    ELSE [ok |-> FALSE, filename |-> <<>>, checksum |-> EmptyChecksum,
          total_size |-> 0, status |-> 0, file_path |-> <<>>]

\* update_upload_progress as it would be if the statement were not run.
UpdateUploadProgressSkipped(progress, uploaded_size, checksum, file_id, start_offset) ==
    progress

\* update_upload_progress as it would be without "AND start_offset = ?".
UpdateUploadProgressAllChunks(progress, uploaded_size, checksum, file_id, start_offset) ==
    [k \in DOMAIN progress |->
        IF k[1] = file_id
        THEN [progress[k] EXCEPT !.uploaded_size = uploaded_size,
                                 !.checksum = checksum]
        ELSE progress[k]]

\* update_upload_progress: UPDATE upload_progress SET uploaded_size, checksum
\* WHERE file_id = ? AND start_offset = ?  (no row matched: nothing changes).
UpdateUploadProgress(progress, uploaded_size, checksum, file_id, start_offset) ==
    IF <<file_id, start_offset>> \in DOMAIN progress
    THEN [progress EXCEPT ![<<file_id, start_offset>>] =
            [@ EXCEPT !.uploaded_size = uploaded_size, !.checksum = checksum]]
    ELSE progress

\* get_total_uploaded: SELECT SUM(uploaded_size) WHERE file_id = ?  (0 if none).
GetTotalUploaded(progress, file_id) ==
    LET keys == {k \in DOMAIN progress : k[1] = file_id}
    IN  SumOver([k \in keys |-> progress[k].uploaded_size], keys)

\* The rows matched by update_file_status_and_path's WHERE clause (0 or 1).
RowsMatched(meta, file_id, current_status) ==
    IF file_id \in DOMAIN meta /\ meta[file_id].status = current_status THEN 1 ELSE 0

\* update_file_status_and_path as it would be if it did not SET file_path.
UpdateFileStatusOnly(meta, file_id, current_status, new_status, file_path) ==
    IF file_id \in DOMAIN meta /\ meta[file_id].status = current_status
    THEN [meta EXCEPT ![file_id] = [@ EXCEPT !.status = new_status]]
    ELSE meta

\* update_file_status_and_path as it would be without "AND status = ?".
UpdateFileStatusAndPathUnguarded(meta, file_id, current_status, new_status, file_path) ==
    IF file_id \in DOMAIN meta
    THEN [meta EXCEPT ![file_id] =
            [@ EXCEPT !.status = new_status, !.file_path = file_path]]
    ELSE meta

\* update_file_status_and_path as it would be if every transition stored the
\* final path, the one to PROCESSING included.
UpdateFileStatusAndFinalPath(meta, file_id, current_status, new_status, file_path) ==
    IF file_id \in DOMAIN meta /\ meta[file_id].status = current_status
    THEN [meta EXCEPT ![file_id] =
            [@ EXCEPT !.status = new_status,
                      !.file_path = FinalFilePath(meta[file_id].filename)]]
    ELSE meta

\* update_file_status_and_path: UPDATE upload_file_meta SET status, file_path
\* WHERE file_id = ? AND status = ?
UpdateFileStatusAndPath(meta, file_id, current_status, new_status, file_path) ==
    IF RowsMatched(meta, file_id, current_status) = 1
    THEN [meta EXCEPT ![file_id] =
            [@ EXCEPT !.status = new_status, !.file_path = file_path]]
    ELSE meta

\* --------------------------------------------------------------- responses
\* What a handler returned: HTTP status (0: the handler panicked and sent
\* nothing), the envelope code or body text, and the data fields.
Response(http, body, size, checksum) ==
    [http |-> http, body |-> body, size |-> size, checksum |-> checksum]
NoResponse == Response(0, "", 0, EmptyChecksum)
ErrorResponse(http, body) == Response(http, body, 0, EmptyChecksum)
Panicked == ErrorResponse(0, "panic")

\* ------------------------------------------------------------- upload calls
\* Locals of an upload_file call that has not started.
IdleCall ==
    [pc |-> "idle", file_id |-> 0, start_offset |-> 0, content_length |-> 0,
     start_pos |-> 0, intact |-> TRUE, serial |-> TRUE,
     filename |-> <<>>, total_size |-> 0,
     ino |-> 0, uploaded_size |-> 0, hashed |-> <<>>, rows_affected |-> 0,
     final_ino |-> 0, final_pos |-> 0, merge_start |-> 0,
     response |-> NoResponse]

\* The call with locals c has returned `response`: the request and the
\* position the write loop reached stay on record, the rest of the handler's
\* working state is dropped.
Returned(c, response) ==
    [IdleCall EXCEPT !.pc = "done", !.response = response,
                     !.file_id = c.file_id, !.start_offset = c.start_offset,
                     !.content_length = c.content_length,
                     !.start_pos = c.start_pos, !.intact = c.intact,
                     !.serial = c.serial, !.uploaded_size = c.uploaded_size]

\* What get_upload_status returned: HTTP status, the file_id and the status
\* string of the response (or the error code), and its chunk rows.
\* seq numbers the calls.
StatusResponse(seq, http, file_id, status, chunks) ==
    [seq |-> seq, http |-> http, file_id |-> file_id, status |-> status,
     chunks |-> chunks]
NoStatusResponse == StatusResponse(0, 0, 0, "", {})

\* What download_file returned: HTTP status, the file_id asked for, the error
\* text, and for a 200 the path that was read and the bytes of the body.
\* status is the status column of the record the handler fetched (it does not
\* look at it); seq numbers the calls.
DownloadResponse(seq, http, file_id, status, body, path, data) ==
    [seq |-> seq, http |-> http, file_id |-> file_id, status |-> status,
     body |-> body, path |-> path, data |-> data]
NoDownloadResponse == DownloadResponse(0, 0, 0, 0, "", <<>>, <<>>)

\* What get_uploaded_files returns: the HTTP status (0 when the handler
\* panicked), the count and the page of file_ids, and for the offset
\* computation its operands, its u32 result and whether the arithmetic was
\* exact, wrapped or panicked.
ListResponse(http, total_files, file_ids, page, page_size, offset, arith) ==
    [http |-> http, total_files |-> total_files, files |-> file_ids,
     page |-> page, page_size |-> page_size, offset |-> offset, arith |-> arith]

\* A u32 as its two 16-bit halves, value = hi * Half + lo.
Half == 65536
U32(hi, lo) == [hi |-> hi, lo |-> lo]
U32Zero == U32(0, 0)
U32Max == U32(Half - 1, Half - 1)

\* The product of two 16-bit halves, as a u32.
Mul16(x, y) ==
    LET a == (x % 256) * y
        b == (x \div 256) * y
        lo_sum == (a % Half) + (b % 256) * 256
    IN  U32((a \div Half) + (b \div 256) + (lo_sum \div Half), lo_sum % Half)

\* a - 1 and a * b modulo 2^32, and whether the exact result leaves the u32
\* range.
SubOverflows(a) == a = U32Zero
WrappingSub(a) ==
    IF a = U32Zero THEN U32Max
    ELSE IF a.lo = 0 THEN U32(a.hi - 1, Half - 1)
    ELSE U32(a.hi, a.lo - 1)
WrappingMul(a, b) ==
    LET p0 == Mul16(a.lo, b.lo)
        p1 == Mul16(a.hi, b.lo)
        p2 == Mul16(a.lo, b.hi)
    IN  U32((p0.hi + p1.lo + p2.lo) % Half, p0.lo)
MulOverflows(a, b) ==
    LET p0 == Mul16(a.lo, b.lo)
        p1 == Mul16(a.hi, b.lo)
        p2 == Mul16(a.lo, b.hi)
        p3 == Mul16(a.hi, b.hi)
    IN  ((p0.hi + p1.lo + p2.lo) \div Half) + p1.hi + p2.hi + p3.hi + p3.lo > 0

\* The u32 value v where it counts rows of a table of n rows: v, or n when v
\* is larger.
Clamp(v, n) == IF v.hi > 0 \/ v.lo > n THEN n ELSE v.lo

NoListResponse == ListResponse(0, 0, <<>>, U32Zero, U32Zero, U32Zero, "none")

\* ------------------------------------------------------------------- inputs
\* Raw filenames a client registers, as sequences of characters.
RawNames == {<<"a">>, <<"/", "a">>}
\* X-File-ID values: the ids submit_file_metadata hands out, registered or not.
FileIds == 1..MaxFiles
\* X-Start-Offset values.
StartOffsets == 0..(MaxTotal - 1)
\* Content-Length values.
ContentLengths == 1..MaxTotal
\* Content-Range: <<>> when the header is absent, <<a>> for "bytes a-b/*".
ContentRanges == {<<>>} \cup {<<a>> : a \in 0..(MaxTotal - 1)}
\* total_size values of the registration JSON.
TotalSizes == 1..MaxTotal
\* config_value of the chunk_size row.
ChunkSizeValues == {"1", "2"}
\* The system_config table at start: chunk_size set, system_initialized
\* missing, pending or set.
InitialConfigs ==
    {[k \in {"chunk_size"} |-> cs] : cs \in ChunkSizeValues}
    \cup {[k \in {"chunk_size", "system_initialized"} |->
             IF k = "chunk_size" THEN cs ELSE si] :
          cs \in ChunkSizeValues, si \in {"pending", "success"}}

\* --------------------------------------------------------------------- Init
Init ==
    /\ system_config \in InitialConfigs
    /\ upload_file_meta = <<>>
    /\ upload_progress = <<>>
    /\ files = <<>>
    /\ call = [p \in Procs |-> IdleCall]
    /\ submit_response = [http |-> 0, code |-> "", file_id |-> 0, chunks |-> <<>>]
    /\ merges = [f \in FileIds |-> 0]
    /\ clock = 0
    /\ status_response = NoStatusResponse
    /\ download_response = NoDownloadResponse
    /\ list_response = NoListResponse

\* set_system_initialized: UPDATE system_config SET config_value = 'success'
\* WHERE config_key = 'system_initialized'.
SetSystemInitialized ==
    /\ "system_initialized" \in DOMAIN system_config
    /\ system_config["system_initialized"] # "success"
    /\ system_config' = [system_config EXCEPT !["system_initialized"] = "success"]
    /\ UNCHANGED <<upload_file_meta, upload_progress, files, call,
                   submit_response, merges,
                   clock, status_response, download_response, list_response>>

\* ------------------------------------------------------ submit_file_metadata
\* The value the store gives upload_progress.last_updated when a row is
\* inserted: the INSERT statement names no value, the column default applies
\* (0, or the time of the insert).
InsertedLastUpdated(now) == {0, now}

\* The rows the transaction inserts into upload_progress.
ProgressRows(file_id, safe_filename, chunks, last_updated) ==
    [k \in {<<file_id, chunks[j].start_offset>> : j \in DOMAIN chunks} |->
        LET c == CHOOSE c \in {chunks[j] : j \in DOMAIN chunks} :
                    c.start_offset = k[2]
        IN  [filename |-> safe_filename, total_size |-> c.chunk_size,
             uploaded_size |-> 0, checksum |-> EmptyChecksum,
             start_offset |-> c.start_offset, end_offset |-> c.end_offset,
             last_updated |-> last_updated]]

\* The row save_upload_state_to_db inserts (status takes the column default).
MetaRow(safe_filename, total_size, checksum) ==
    [filename |-> safe_filename, total_size |-> total_size,
     checksum |-> checksum, status |-> REGISTERED, file_path |-> <<>>]

\* f with the mappings of g added (g wins on common keys).
Merge(f, g) ==
    [k \in DOMAIN f \cup DOMAIN g |-> IF k \in DOMAIN g THEN g[k] ELSE f[k]]

\* One submit_file_metadata call: the transaction commits as a whole.  The
\* fresh uuid is the next unused id.
SubmitFileMetadata(raw_filename, total_size, checksum) ==
    /\ LET safe_filename == Sanitize(raw_filename)
           file_id == Cardinality(DOMAIN upload_file_meta) + 1
           cs == FetchChunkSize(system_config)
       IN  IF ~CheckSystemInitialized(system_config)
           THEN /\ submit_response' = [http |-> 400, code |-> "SYSTEM_NOT_INITIALIZED",
                                       file_id |-> 0, chunks |-> <<>>]
                /\ UNCHANGED <<upload_file_meta, upload_progress>>
           ELSE IF ~cs.ok
           THEN /\ submit_response' = [http |-> 500, code |-> "FETCH_CHUNK_SIZE_ERROR",
                                       file_id |-> 0, chunks |-> <<>>]
                /\ UNCHANGED <<upload_file_meta, upload_progress>>
           ELSE IF cs.v = 0
           THEN \* division by zero at num_chunks: the handler panics, the
                \* dropped transaction rolls back
                /\ submit_response' = [http |-> 0, code |-> "panic",
                                       file_id |-> 0, chunks |-> <<>>]
                /\ UNCHANGED <<upload_file_meta, upload_progress>>
           ELSE LET chunks == PlanChunks(total_size, cs.v)
                IN  /\ upload_file_meta' =
                           Merge(upload_file_meta,
                                 [f \in {file_id} |->
                                     MetaRow(safe_filename, total_size, checksum)])
                    /\ \E t \in InsertedLastUpdated(clock) :
                          upload_progress' =
                             Merge(upload_progress,
                                   ProgressRows(file_id, safe_filename, chunks, t))
                    /\ submit_response' = [http |-> 200, code |-> "0",
                                           file_id |-> file_id, chunks |-> chunks]
    /\ UNCHANGED <<system_config, files, call, merges, clock, status_response,
                   download_response, list_response>>

\* ---------------------------------------------------------------- upload_file
\* Call p continues with `locals`; call p returns `response`.
Set(p, locals) == call' = [call EXCEPT ![p] = locals]
Return(p, response) == Set(p, Returned(call[p], response))

\* Content-Range parsing: start_pos is the first number, 0 without the header.
StartPos(content_range) == IF content_range = <<>> THEN 0 ELSE content_range[1]

\* Lines 82-148: the initialization gate, the headers, the file record.  The
\* headers X-File-ID, X-Start-Offset and Content-Length are present and
\* well-formed.  Calls start in process order.
UploadBegin(p, file_id, start_offset, content_length, content_range, intact) ==
    /\ call[p].pc = "idle"
    /\ \A q \in Procs : q < p => call[q].pc # "idle"
    /\ LET record == FetchFileRecord(upload_file_meta, file_id)
           request == [IdleCall EXCEPT
                          !.file_id = file_id,
                          !.start_offset = start_offset,
                          !.content_length = content_length,
                          !.start_pos = StartPos(content_range),
                          !.intact = intact,
                          !.uploaded_size = StartPos(content_range),
                          !.serial = \A q \in Procs : q < p => call[q].pc = "done"]
       IN  IF ~CheckSystemInitialized(system_config)
           THEN Set(p, Returned(request, ErrorResponse(400, "SYSTEM_NOT_INITIALIZED")))
           ELSE IF ~record.ok
           THEN Set(p, Returned(request, ErrorResponse(500, "Failed to fetch file record")))
           ELSE Set(p, [request EXCEPT
                          !.pc = "open",
                          !.filename = Sanitize(record.filename),
                          !.total_size = record.total_size])
    /\ UNCHANGED <<system_config, upload_file_meta, upload_progress, files,
                   submit_response, merges,
                   clock, status_response, download_response, list_response>>

\* The open as it would be with truncate(true): an existing file is emptied.
OpenCreateTruncate(fs, path, p) ==
    Merge(fs, [q \in {path} |->
                  [ino |-> IF path \in DOMAIN fs THEN fs[path].ino ELSE p,
                   data |-> <<>>]])

\* OpenOptions::new().create(true).write(true).open(path): the file is
\* created empty when missing and kept as it is otherwise.
OpenCreate(fs, path, p) ==
    IF path \in DOMAIN fs THEN fs
    ELSE Merge(fs, [q \in {path} |-> [ino |-> p, data |-> <<>>]])

\* Lines 150-169: open the staging file, seek to start_pos - start_offset.
\* The u64 subtraction underflows when start_pos < start_offset: the handler
\* panics (overflow checks on) or seeks to an offset lseek rejects
\* (overflow checks off).
UploadOpen(p) ==
    /\ call[p].pc = "open"
    /\ LET c == call[p]
           path == ChunkFilePath(c.filename, c.start_offset)
       IN  /\ files' = OpenCreate(files, path, p)
           /\ IF c.start_pos < c.start_offset
              THEN \E r \in {Panicked, ErrorResponse(500, "Failed to seek file")} :
                      Return(p, r)
              ELSE Set(p, [c EXCEPT !.pc = "read", !.ino = files'[path].ino])
    /\ UNCHANGED <<system_config, upload_file_meta, upload_progress,
                   submit_response, merges,
                   clock, status_response, download_response, list_response>>

\* A write through a handle on inode `ino` of `path` at offset pos: it shows
\* in the directory only while the path still names that inode.
WriteThrough(fs, path, ino, pos, bytes) ==
    IF path \in DOMAIN fs /\ fs[path].ino = ino
    THEN [fs EXCEPT ![path].data = WriteAt(@, pos, bytes)]
    ELSE fs

\* bytes_to_write as it would be if the whole buffer were taken.
BytesToWriteUnclamped(len, content_length, uploaded_size, start_pos) == len

\* Lines 184-185: bytes_to_write = min(chunk.len(), content_length - written).
BytesToWrite(len, content_length, uploaded_size, start_pos) ==
    LET written == uploaded_size - start_pos
        remaining_bytes == IF content_length >= written
                           THEN content_length - written ELSE 0
    IN  Min(len, remaining_bytes)

\* Lines 174-193: the stream yields a buffer of len bytes; its first
\* bytes_to_write bytes go to the staging file and to the hasher.
UploadWrite(p, len) ==
    /\ call[p].pc = "read"
    /\ LET c == call[p]
           written == c.uploaded_size - c.start_pos
           n == BytesToWrite(len, c.content_length, c.uploaded_size, c.start_pos)
           bytes == BodyBytes(c.intact, c.start_pos, written, n)
           path == ChunkFilePath(c.filename, c.start_offset)
       IN  /\ files' = WriteThrough(files, path, c.ino,
                                    (c.start_pos - c.start_offset) + written, bytes)
           /\ Set(p, [c EXCEPT !.pc = "commit",
                               !.uploaded_size = @ + n,
                               !.hashed = @ \o bytes])
    /\ UNCHANGED <<system_config, upload_file_meta, upload_progress,
                   submit_response, merges,
                   clock, status_response, download_response, list_response>>

\* Lines 175-181: the stream fails (the client went away) before the body is
\* complete.
UploadPayloadError(p) ==
    /\ call[p].pc = "read"
    /\ Return(p, ErrorResponse(500, "Payload error"))
    /\ UNCHANGED <<system_config, upload_file_meta, upload_progress, files,
                   submit_response, merges,
                   clock, status_response, download_response, list_response>>

\* The value update_upload_progress stores as uploaded_size (line 198).
StoredUploadedSize(uploaded_size, start_pos) ==
    uploaded_size - start_pos

\* Lines 195-205: commit the progress row, leave the loop when enough bytes
\* were written.
UploadCommit(p) ==
    /\ call[p].pc = "commit"
    /\ LET c == call[p]
       IN  /\ upload_progress' =
                 UpdateUploadProgress(upload_progress,
                     StoredUploadedSize(c.uploaded_size, c.start_pos),
                     Sha256(c.hashed), c.file_id, c.start_offset)
           /\ Set(p, [c EXCEPT !.pc =
                        IF c.uploaded_size - c.start_pos >= c.content_length
                        THEN "total" ELSE "read"])
    /\ UNCHANGED <<system_config, upload_file_meta, files, submit_response, merges,
                   clock, status_response, download_response, list_response>>

\* The completion test as it would be with > in place of >=.
AllUploadedStrict(total_uploaded, total_size) == total_uploaded > total_size

\* Line 217: the completion test on the sum read at line 212.
AllUploaded(total_uploaded, total_size) == total_uploaded >= total_size

\* Lines 211-217 and 284-296: read the sum of uploaded sizes; below
\* total_size the call returns range_success.
UploadTotal(p) ==
    /\ call[p].pc = "total"
    /\ LET c == call[p]
           total_uploaded == GetTotalUploaded(upload_progress, c.file_id)
       IN  IF AllUploaded(total_uploaded, c.total_size)
           THEN Set(p, [c EXCEPT !.pc = "cas"])
           ELSE Return(p, Response(200, "range_success", c.uploaded_size,
                                   Sha256(c.hashed)))
    /\ UNCHANGED <<system_config, upload_file_meta, upload_progress, files,
                   submit_response, merges,
                   clock, status_response, download_response, list_response>>

\* Lines 218-221: update_file_status_and_path(file_id, 0, 1, ""), which
\* returns Ok whatever number of rows it changed (rows_affected is what the
\* store reports and the handler does not look at).
UploadCas(p) ==
    /\ call[p].pc = "cas"
    /\ LET c == call[p]
           rows == RowsMatched(upload_file_meta, c.file_id, REGISTERED)
       IN  /\ upload_file_meta' =
                 UpdateFileStatusAndPath(upload_file_meta, c.file_id,
                                         REGISTERED, PROCESSING, <<>>)
           /\ Set(p, [c EXCEPT !.pc = "merge_open", !.rows_affected = rows])
    /\ UNCHANGED <<system_config, upload_progress, files, submit_response, merges,
                   clock, status_response, download_response, list_response>>

\* merge_chunks, lines 415-426: open the final file with create(true) and
\* write(true); its content is kept, the handle starts at offset 0.  An empty
\* filename names the uploads directory itself and the open fails.
MergeOpen(p) ==
    /\ call[p].pc = "merge_open"
    /\ LET c == call[p]
           path == FinalFilePath(c.filename)
       IN  /\ merges' = [merges EXCEPT ![c.file_id] = @ + 1]
           /\ IF c.filename = <<>>
              THEN /\ Return(p, ErrorResponse(500, "Failed to create final file"))
                   /\ files' = files
              ELSE /\ files' = OpenCreate(files, path, p)
                   /\ Set(p, [c EXCEPT !.pc = IF 0 < c.total_size
                                               THEN "merge_loop" ELSE "hash",
                                       !.final_ino = files'[path].ino,
                                       !.final_pos = 0,
                                       !.merge_start = 0])
    /\ UNCHANGED <<system_config, upload_file_meta, upload_progress, submit_response,
                   clock, status_response, download_response, list_response>>

\* The function f without the key k.
Without(f, k) == [x \in DOMAIN f \ {k} |-> f[x]]

\* merge_chunks, lines 428-452: one iteration of
\* for start in (0..total_size).step_by(1024 * 1024): open the staging file
\* of `start`, append its bytes to the final file, remove it.
MergeLoop(p) ==
    /\ call[p].pc = "merge_loop"
    /\ LET c == call[p]
           chunk_path == ChunkFilePath(c.filename, c.merge_start)
           final_path == FinalFilePath(c.filename)
       IN  IF chunk_path \notin DOMAIN files
           THEN /\ Return(p, ErrorResponse(500, "Failed to open chunk file"))
                /\ files' = files
           ELSE /\ files' = Without(WriteThrough(files, final_path, c.final_ino,
                                                 c.final_pos, files[chunk_path].data),
                                    chunk_path)
                /\ Set(p, [c EXCEPT !.pc = IF c.merge_start + MergeStep < c.total_size
                                           THEN "merge_loop" ELSE "hash",
                                    !.final_pos = @ + Len(files[chunk_path].data),
                                    !.merge_start = @ + MergeStep])
    /\ UNCHANGED <<system_config, upload_file_meta, upload_progress,
                   submit_response, merges,
                   clock, status_response, download_response, list_response>>

\* Lines 232-265: hash the final file, compare with the registered checksum.
UploadHash(p) ==
    /\ call[p].pc = "hash"
    /\ LET c == call[p]
           final_path == FinalFilePath(c.filename)
           calculated_md5 == Md5(files[final_path].data)
           record == FetchFileRecord(upload_file_meta, c.file_id)
       IN  IF final_path \notin DOMAIN files
           THEN Return(p, ErrorResponse(500, "Failed to open final file for hashing"))
           ELSE IF calculated_md5 # record.checksum
           THEN Return(p, ErrorResponse(500, "File is corrupted: MD5 hash mismatch"))
           ELSE Set(p, [c EXCEPT !.pc = "publish", !.hashed = files[final_path].data])
    /\ UNCHANGED <<system_config, upload_file_meta, upload_progress, files,
                   submit_response, merges,
                   clock, status_response, download_response, list_response>>

\* Lines 270-283: update_file_status_and_path(file_id, 1, 2, final_file_path)
\* and the success response.
UploadPublish(p) ==
    /\ call[p].pc = "publish"
    /\ LET c == call[p]
       IN  /\ upload_file_meta' =
                 UpdateFileStatusAndPath(upload_file_meta, c.file_id,
                                         PROCESSING, COMPLETED,
                                         FinalFilePath(c.filename))
           /\ Return(p, Response(200, "success", c.total_size, Md5(c.hashed)))
    /\ UNCHANGED <<system_config, upload_progress, files, submit_response, merges,
                   clock, status_response, download_response, list_response>>

\* ---------------------------------------------------------------------- Next
Next ==
    \/ SetSystemInitialized
    \/ \E n \in RawNames, t \in TotalSizes :
         \E d \in {Md5(IntendedContent(t)), Md5(CorruptContent(t))} :
            /\ Cardinality(DOMAIN upload_file_meta) < MaxFiles
            /\ SubmitFileMetadata(n, t, d)
    \/ \E p \in Procs, f \in FileIds, o \in StartOffsets, l \in ContentLengths,
          r \in ContentRanges, i \in BOOLEAN :
            UploadBegin(p, f, o, l, r, i)
    \/ \E p \in Procs : UploadOpen(p)
    \/ \E p \in Procs, len \in 1..MaxBuf : UploadWrite(p, len)
    \/ \E p \in Procs : UploadPayloadError(p)
    \/ \E p \in Procs : UploadCommit(p)
    \/ \E p \in Procs : UploadTotal(p)
    \/ \E p \in Procs : UploadCas(p)
    \/ \E p \in Procs : MergeOpen(p)
    \/ \E p \in Procs : MergeLoop(p)
    \/ \E p \in Procs : UploadHash(p)
    \/ \E p \in Procs : UploadPublish(p)

Spec == Init /\ [][Next]_vars

\* ----------------------------------------------------------------- SpecPlan
\* The planner alone: an initialized system with a chunk_size of 1, 2 or 3
\* and registrations of every total_size up to MaxPlanTotal.
PlanChunkSizeValues == {"1", "2", "3"}

InitPlan ==
    /\ system_config \in
          {[k \in {"chunk_size", "system_initialized"} |->
               IF k = "chunk_size" THEN cs ELSE "success"] :
           cs \in PlanChunkSizeValues}
    /\ upload_file_meta = <<>>
    /\ upload_progress = <<>>
    /\ files = <<>>
    /\ call = [p \in Procs |-> IdleCall]
    /\ submit_response = [http |-> 0, code |-> "", file_id |-> 0, chunks |-> <<>>]
    /\ merges = [f \in FileIds |-> 0]
    /\ clock = 0
    /\ status_response = NoStatusResponse
    /\ download_response = NoDownloadResponse
    /\ list_response = NoListResponse

NextPlan ==
    \E n \in RawNames, t \in 1..MaxPlanTotal :
        /\ Cardinality(DOMAIN upload_file_meta) < MaxPlanFiles
        /\ SubmitFileMetadata(n, t, Md5(IntendedContent(t)))

SpecPlan == InitPlan /\ [][NextPlan]_vars

\* ------------------------------------------------------------- SpecRegister
\* submit_file_metadata with its failure paths: the store may fail to begin
\* the transaction, to insert the upload_file_meta row, to insert the chunk
\* row number fail_at, or to commit; chunk_size may be missing, unparsable
\* or "0".
Faults == {"none", "begin", "save", "insert", "commit"}

\* A table after the transaction that wrote `pending` into it was rolled back
\* as it would be if the writes stayed visible.
RollbackKeepsWrites(table, pending) == Merge(table, pending)

\* A table after tx.rollback(), or after the transaction was dropped without a
\* commit: the rows it wrote are gone.
Rollback(table, pending) == table

\* A table after tx.commit() succeeded.
Commit(table, pending) == Merge(table, pending)

\* The response envelope of submit_file_metadata.
SubmitResponse(http, code, file_id, chunks) ==
    [http |-> http, code |-> code, file_id |-> file_id, chunks |-> chunks]

SubmitFileMetadataWithFaults(raw_filename, total_size, checksum, fault, fail_at) ==
    /\ LET safe_filename == Sanitize(raw_filename)
           file_id == Cardinality(DOMAIN upload_file_meta) + 1
           cs == FetchChunkSize(system_config)
           meta_row == [f \in {file_id} |->
                           MetaRow(safe_filename, total_size, checksum)]
           Fail(http, code, meta_pending, progress_pending) ==
               /\ upload_file_meta' = Rollback(upload_file_meta, meta_pending)
               /\ upload_progress' = Rollback(upload_progress, progress_pending)
               /\ submit_response' = SubmitResponse(http, code, 0, <<>>)
       IN  IF ~CheckSystemInitialized(system_config)
           THEN Fail(400, "SYSTEM_NOT_INITIALIZED", <<>>, <<>>)
           ELSE IF fault = "begin"
           THEN Fail(500, "Failed to begin transaction", <<>>, <<>>)
           ELSE IF fault = "save"
           THEN Fail(500, "DB_SAVE_ERROR", <<>>, <<>>)
           ELSE IF ~cs.ok
           THEN Fail(500, "FETCH_CHUNK_SIZE_ERROR", meta_row, <<>>)
           ELSE IF cs.v = 0
           THEN Fail(0, "panic", meta_row, <<>>)
           ELSE LET chunks == PlanChunks(total_size, cs.v)
                IN  IF fault = "insert" /\ fail_at < Len(chunks)
                    THEN Fail(500, "Failed to initialize upload progress", meta_row,
                              ProgressRows(file_id, safe_filename,
                                           SubSeq(chunks, 1, fail_at), clock))
                    ELSE IF fault = "commit"
                    THEN Fail(500, "COMMIT_TRANSACTION_ERROR", meta_row,
                              ProgressRows(file_id, safe_filename, chunks, clock))
                    ELSE /\ upload_file_meta' = Commit(upload_file_meta, meta_row)
                         /\ \E t \in InsertedLastUpdated(clock) :
                               upload_progress' =
                                  Commit(upload_progress,
                                         ProgressRows(file_id, safe_filename, chunks, t))
                         /\ submit_response' =
                               SubmitResponse(200, "0", file_id, chunks)
    /\ UNCHANGED <<system_config, files, call, merges, clock, status_response,
                   download_response, list_response>>

\* config_value of the chunk_size row in SpecRegister ("" : the row is missing).
RegisterChunkSizeValues == {"", "x", "0", "1", "2"}

InitRegister ==
    /\ system_config \in
          {[k \in {"system_initialized"} |-> "success"]}
          \cup {[k \in {"chunk_size", "system_initialized"} |->
                   IF k = "chunk_size" THEN cs ELSE "success"] :
                cs \in RegisterChunkSizeValues \ {""}}
    /\ upload_file_meta = <<>>
    /\ upload_progress = <<>>
    /\ files = <<>>
    /\ call = [p \in Procs |-> IdleCall]
    /\ submit_response = SubmitResponse(0, "", 0, <<>>)
    /\ merges = [f \in FileIds |-> 0]
    /\ clock = 0
    /\ status_response = NoStatusResponse
    /\ download_response = NoDownloadResponse
    /\ list_response = NoListResponse

\* Raw filenames of SpecRegister: those of RawNames and one that sanitize
\* leaves empty.
RegisterNames == RawNames \cup {<<"/">>}

NextRegister ==
    \E n \in RegisterNames, t \in 0..MaxPlanTotal, fault \in Faults,
       fail_at \in 0..(MaxPlanTotal - 1) :
        /\ Cardinality(DOMAIN upload_file_meta) < MaxPlanFiles
        /\ SubmitFileMetadataWithFaults(n, t, Md5(IntendedContent(t)), fault, fail_at)

SpecRegister == InitRegister /\ [][NextRegister]_vars

\* --------------------------------------------------------------- SpecStatus
\* get_upload_status, the clock, registrations and the upload calls of one
\* client.
\* How the store reads the file_id that fetch_upload_progress formats into
\* its statement without quotes (WHERE file_id = 3f2a...-...): a uuid with a
\* letter in a group is read as column names, "identifier", and the statement
\* fails; a uuid of decimal digits only is read as a subtraction of numbers,
\* "arithmetic", whose value is not the number any stored file_id converts to.
UuidLexings == {"identifier", "arithmetic"}

\* fetch_upload_progress: the ChunkProgress rows the statement returns.
FetchUploadProgress(progress, file_id, lexing) ==
    IF lexing = "identifier"
    THEN [ok |-> FALSE, rows |-> {}]
    ELSE [ok |-> TRUE, rows |-> {}]

\* One get_upload_status call.
GetUploadStatus(file_id, lexing) ==
    /\ status_response.seq < MaxQueries
    /\ LET seq == status_response.seq + 1
           record == FetchFileRecord(upload_file_meta, file_id)
           chunk_progress == FetchUploadProgress(upload_progress, file_id, lexing)
           now == clock
           is_paused == \A chunk \in chunk_progress.rows :
                            now - chunk.last_updated > StaleSeconds
       IN  status_response' =
              IF ~record.ok
              THEN StatusResponse(seq, 500, file_id, "FETCH_FILE_RECORD_ERROR", {})
              ELSE IF record.status = PROCESSING
              THEN StatusResponse(seq, 200, file_id, "processing", {})
              ELSE IF record.status = COMPLETED
              THEN StatusResponse(seq, 200, file_id, "completed", {})
              ELSE IF ~chunk_progress.ok
              THEN StatusResponse(seq, 500, file_id, "FETCH_PROGRESS_ERROR", {})
              ELSE StatusResponse(seq, 200, file_id,
                                  IF is_paused THEN "paused" ELSE "uploading",
                                  chunk_progress.rows)
    /\ UNCHANGED <<system_config, upload_file_meta, upload_progress, files, call,
                   submit_response, merges, clock, download_response,
                   list_response>>

\* Seconds that pass between two steps.
TickSeconds == {60, 61}

\* Time passes.
Tick ==
    /\ \E d \in TickSeconds :
          /\ clock + d <= MaxClock
          /\ clock' = clock + d
    /\ UNCHANGED <<system_config, upload_file_meta, upload_progress, files, call,
                   submit_response, merges, status_response, download_response,
                   list_response>>

\* The upload calls of SpecStatus are made one at a time by the first process.
StatusProcs == {1}

InitStatus ==
    /\ system_config \in
          {[k \in {"chunk_size", "system_initialized"} |->
               IF k = "chunk_size" THEN cs ELSE "success"] :
           cs \in ChunkSizeValues}
    /\ upload_file_meta = <<>>
    /\ upload_progress = <<>>
    /\ files = <<>>
    /\ call = [p \in Procs |-> IdleCall]
    /\ submit_response = SubmitResponse(0, "", 0, <<>>)
    /\ merges = [f \in FileIds |-> 0]
    /\ clock = 0
    /\ status_response = NoStatusResponse
    /\ download_response = NoDownloadResponse
    /\ list_response = NoListResponse

NextStatus ==
    \/ Tick
    \/ \E n \in RawNames, t \in TotalSizes :
          /\ Cardinality(DOMAIN upload_file_meta) < MaxFiles
          /\ SubmitFileMetadata(n, t, Md5(IntendedContent(t)))
    \/ \E f \in FileIds, lexing \in UuidLexings : GetUploadStatus(f, lexing)
    \/ \E p \in StatusProcs, f \in FileIds, o \in StartOffsets, l \in ContentLengths,
          r \in ContentRanges :
            UploadBegin(p, f, o, l, r, TRUE)
    \/ \E p \in StatusProcs : UploadOpen(p)
    \/ \E p \in StatusProcs, len \in 1..MaxBuf : UploadWrite(p, len)
    \/ \E p \in StatusProcs : UploadPayloadError(p)
    \/ \E p \in StatusProcs : UploadCommit(p)
    \/ \E p \in StatusProcs : UploadTotal(p)
    \/ \E p \in StatusProcs : UploadCas(p)
    \/ \E p \in StatusProcs : MergeOpen(p)
    \/ \E p \in StatusProcs : MergeLoop(p)
    \/ \E p \in StatusProcs : UploadHash(p)
    \/ \E p \in StatusProcs : UploadPublish(p)

SpecStatus == InitStatus /\ [][NextStatus]_vars

\* ------------------------------------------------------------- SpecDownload
\* download_file next to the registration and the upload calls of one client.
\* File::open(path): Ok iff the path names a file of the directory (the empty
\* path names nothing).
OpenRead(fs, path) == path # <<>> /\ path \in DOMAIN fs

\* One download_file call: fetch the record, open and read record.file_path.
DownloadFile(file_id) ==
    /\ download_response.seq < MaxDownloads
    /\ LET seq == download_response.seq + 1
           record == FetchFileRecord(upload_file_meta, file_id)
       IN  download_response' =
              IF ~record.ok
              THEN DownloadResponse(seq, 500, file_id, 0,
                                    "Failed to fetch file record", <<>>, <<>>)
              ELSE IF ~OpenRead(files, record.file_path)
              THEN DownloadResponse(seq, 500, file_id, record.status,
                                    "Failed to open file", <<>>, <<>>)
              ELSE DownloadResponse(seq, 200, file_id, record.status, "",
                                    record.file_path, files[record.file_path].data)
    /\ UNCHANGED <<system_config, upload_file_meta, upload_progress, files, call,
                   submit_response, merges, clock, status_response,
                   list_response>>

\* The upload calls of SpecDownload are made one at a time by the first process.
DownloadProcs == {1}

InitDownload ==
    /\ system_config \in
          {[k \in {"chunk_size", "system_initialized"} |->
               IF k = "chunk_size" THEN cs ELSE "success"] :
           cs \in ChunkSizeValues}
    /\ upload_file_meta = <<>>
    /\ upload_progress = <<>>
    /\ files = <<>>
    /\ call = [p \in Procs |-> IdleCall]
    /\ submit_response = SubmitResponse(0, "", 0, <<>>)
    /\ merges = [f \in FileIds |-> 0]
    /\ clock = 0
    /\ status_response = NoStatusResponse
    /\ download_response = NoDownloadResponse
    /\ list_response = NoListResponse

NextDownload ==
    \/ \E n \in RawNames, t \in TotalSizes :
          \E d \in {Md5(IntendedContent(t)), Md5(CorruptContent(t))} :
             /\ Cardinality(DOMAIN upload_file_meta) < MaxFiles
             /\ SubmitFileMetadata(n, t, d)
    \/ \E f \in FileIds : DownloadFile(f)
    \/ \E p \in DownloadProcs, f \in FileIds, o \in StartOffsets,
          l \in ContentLengths, r \in ContentRanges :
            UploadBegin(p, f, o, l, r, TRUE)
    \/ \E p \in DownloadProcs : UploadOpen(p)
    \/ \E p \in DownloadProcs, len \in 1..MaxBuf : UploadWrite(p, len)
    \/ \E p \in DownloadProcs : UploadPayloadError(p)
    \/ \E p \in DownloadProcs : UploadCommit(p)
    \/ \E p \in DownloadProcs : UploadTotal(p)
    \/ \E p \in DownloadProcs : UploadCas(p)
    \/ \E p \in DownloadProcs : MergeOpen(p)
    \/ \E p \in DownloadProcs : MergeLoop(p)
    \/ \E p \in DownloadProcs : UploadHash(p)
    \/ \E p \in DownloadProcs : UploadPublish(p)

SpecDownload == InitDownload /\ [][NextDownload]_vars

\* --------------------------------------------------------------- SpecShared
\* Two registrations and the upload calls on them, on an initialized system:
\* the registered names all sanitize to the same filename, the registered
\* checksum is that of the intended content and the bodies arrive unaltered.
SharedFileIds == 1..MaxSharedFiles

InitShared ==
    /\ system_config \in
          {[k \in {"chunk_size", "system_initialized"} |->
               IF k = "chunk_size" THEN cs ELSE "success"] :
           cs \in ChunkSizeValues}
    /\ upload_file_meta = <<>>
    /\ upload_progress = <<>>
    /\ files = <<>>
    /\ call = [p \in Procs |-> IdleCall]
    /\ submit_response = SubmitResponse(0, "", 0, <<>>)
    /\ merges = [f \in SharedFileIds |-> 0]
    /\ clock = 0
    /\ status_response = NoStatusResponse
    /\ download_response = NoDownloadResponse
    /\ list_response = NoListResponse

NextShared ==
    \/ \E n \in RawNames, t \in TotalSizes :
          /\ Cardinality(DOMAIN upload_file_meta) < MaxSharedFiles
          /\ SubmitFileMetadata(n, t, Md5(IntendedContent(t)))
    \/ \E p \in Procs, f \in SharedFileIds, o \in StartOffsets,
          l \in ContentLengths, r \in ContentRanges :
            /\ f \in DOMAIN upload_file_meta
            /\ UploadBegin(p, f, o, l, r, TRUE)
    \/ \E p \in Procs : UploadOpen(p)
    \/ \E p \in Procs, len \in 1..MaxBuf : UploadWrite(p, len)
    \/ \E p \in Procs : UploadPayloadError(p)
    \/ \E p \in Procs : UploadCommit(p)
    \/ \E p \in Procs : UploadTotal(p)
    \/ \E p \in Procs : UploadCas(p)
    \/ \E p \in Procs : MergeOpen(p)
    \/ \E p \in Procs : MergeLoop(p)
    \/ \E p \in Procs : UploadHash(p)
    \/ \E p \in Procs : UploadPublish(p)

SpecShared == InitShared /\ [][NextShared]_vars

\* --------------------------------------------------------------- SpecResume
\* A client that resumes: its calls are made one after the other, each on a
\* chunk of the plan that is not yet stored in full, starting at
\* start_pos = start_offset + the stored uploaded_size and carrying the rest
\* of the chunk.  The stream may fail after any buffer.
ResumeChunkSizeValues ==
    {s \in DecimalStrings : DecimalValue(s) \in 2..MaxResumeTotal}

InitResume ==
    /\ system_config \in
          {[k \in {"chunk_size", "system_initialized"} |->
               IF k = "chunk_size" THEN cs ELSE "success"] :
           cs \in ResumeChunkSizeValues}
    /\ upload_file_meta = <<>>
    /\ upload_progress = <<>>
    /\ files = <<>>
    /\ call = [p \in Procs |-> IdleCall]
    /\ submit_response = SubmitResponse(0, "", 0, <<>>)
    /\ merges = [f \in FileIds |-> 0]
    /\ clock = 0
    /\ status_response = NoStatusResponse
    /\ download_response = NoDownloadResponse
    /\ list_response = NoListResponse

\* The next call of the resuming client on the chunk row k.
ResumeBegin(p, k) ==
    /\ \A q \in Procs \ {p} : call[q].pc \in {"idle", "done"}
    /\ k \in DOMAIN upload_progress
    /\ upload_progress[k].uploaded_size < upload_progress[k].total_size
    /\ UploadBegin(p, k[1], k[2],
                   upload_progress[k].total_size - upload_progress[k].uploaded_size,
                   <<k[2] + upload_progress[k].uploaded_size>>, TRUE)

NextResume ==
    \/ \E n \in RawNames, t \in 1..MaxResumeTotal :
          /\ Cardinality(DOMAIN upload_file_meta) < MaxFiles
          /\ SubmitFileMetadata(n, t, Md5(IntendedContent(t)))
    \/ \E p \in Procs, f \in FileIds, o \in 0..(MaxResumeTotal - 1) :
          ResumeBegin(p, <<f, o>>)
    \/ \E p \in Procs : UploadOpen(p)
    \/ \E p \in Procs, len \in 1..MaxBuf : UploadWrite(p, len)
    \/ \E p \in Procs : UploadPayloadError(p)
    \/ \E p \in Procs : UploadCommit(p)
    \/ \E p \in Procs : UploadTotal(p)
    \/ \E p \in Procs : UploadCas(p)
    \/ \E p \in Procs : MergeOpen(p)
    \/ \E p \in Procs : MergeLoop(p)
    \/ \E p \in Procs : UploadHash(p)
    \/ \E p \in Procs : UploadPublish(p)

SpecResume == InitResume /\ [][NextResume]_vars

\* ----------------------------------------------------------------- SpecPage
\* fetch_uploaded_files, line 174: let offset = (page - 1) * page_size, on
\* u32.  When the exact result leaves the u32 range the handler panics (a
\* build with overflow checks) or goes on with the result modulo 2^32 (a
\* build without).
Offset(page, page_size) ==
    LET v == WrappingMul(WrappingSub(page), page_size)
    IN  IF SubOverflows(page) \/ MulOverflows(WrappingSub(page), page_size)
        THEN {[arith |-> "panic", v |-> U32Zero], [arith |-> "wrapped", v |-> v]}
        ELSE {[arith |-> "exact", v |-> v]}

\* fetch_uploaded_files without status filter and with the default order:
\* SELECT ... FROM upload_file_meta ORDER BY id ASC LIMIT page_size OFFSET
\* offset.  The rows are named by their file_ids, in insertion order.
FetchUploadedFiles(meta, page_size, offset) ==
    LET n == Cardinality(DOMAIN meta)
        skip == Clamp(offset, n)
        take == Clamp(page_size, n - skip)
    IN  [i \in 1..take |-> skip + i]

\* fetch_total_uploaded_files: SELECT COUNT(*) FROM upload_file_meta.
FetchTotalUploadedFiles(meta) == Cardinality(DOMAIN meta)

\* get_uploaded_files: page and page_size go from the query string to
\* fetch_uploaded_files as they are.
GetUploadedFiles(page, page_size) ==
    /\ \E o \in Offset(page, page_size) :
          list_response' =
             IF o.arith = "panic"
             THEN ListResponse(0, 0, <<>>, page, page_size, o.v, o.arith)
             ELSE ListResponse(200, FetchTotalUploadedFiles(upload_file_meta),
                               FetchUploadedFiles(upload_file_meta, page_size, o.v),
                               page, page_size, o.v, o.arith)
    /\ UNCHANGED <<system_config, upload_file_meta, upload_progress, files, call,
                   submit_response, merges, clock, status_response,
                   download_response>>

\* Values of the query parameters page and page_size: the small ones, and
\* values near 2^16 and 2^32.
PageValues == {U32(0, n) : n \in 0..MaxPage} \cup {U32(1, 1), U32Max}
PageSizeValues == {U32(0, n) : n \in 0..MaxPage} \cup {U32(1, 0), U32Max}

InitPage ==
    /\ system_config \in
          {[k \in {"chunk_size", "system_initialized"} |->
               IF k = "chunk_size" THEN cs ELSE "success"] :
           cs \in ChunkSizeValues}
    /\ upload_file_meta = <<>>
    /\ upload_progress = <<>>
    /\ files = <<>>
    /\ call = [p \in Procs |-> IdleCall]
    /\ submit_response = SubmitResponse(0, "", 0, <<>>)
    /\ merges = [f \in FileIds |-> 0]
    /\ clock = 0
    /\ status_response = NoStatusResponse
    /\ download_response = NoDownloadResponse
    /\ list_response = NoListResponse

NextPage ==
    \/ \E n \in RawNames, t \in TotalSizes :
          /\ Cardinality(DOMAIN upload_file_meta) < MaxPlanFiles
          /\ SubmitFileMetadata(n, t, Md5(IntendedContent(t)))
    \/ \E page \in PageValues, page_size \in PageSizeValues :
          GetUploadedFiles(page, page_size)

SpecPage == InitPage /\ [][NextPage]_vars

\* =================================================================== claims
\* Derived views of the tables.
Status(f) == upload_file_meta[f].status
ChunkKeys(f) == {k \in DOMAIN upload_progress : k[1] = f}
InMerge(p) == call[p].pc \in {"merge_loop", "hash", "publish"}

\* C1: in every reachable state a COMPLETED file has a non-empty file_path
\* that names an existing final file whose MD5 is the checksum recorded at
\* registration.
C1_CompletedFileMatchesDigest ==
    \A f \in DOMAIN upload_file_meta :
        Status(f) = COMPLETED =>
            /\ upload_file_meta[f].file_path # <<>>
            /\ upload_file_meta[f].file_path \in DOMAIN files
            /\ Md5(files[upload_file_meta[f].file_path].data)
                  = upload_file_meta[f].checksum

\* C2: at most one call runs merge_chunks for a file_id, and a call whose
\* REGISTERED -> PROCESSING update changed no row does not run it.
C2_OnlyCasWinnerAssembles ==
    /\ \A f \in FileIds : merges[f] <= 1
    /\ \A p \in Procs : InMerge(p) => call[p].rows_affected = 1

\* C3: the stored status of a file only ever changes 0 -> 1 and 1 -> 2.
C3_StatusChain ==
    [][\A f \in DOMAIN upload_file_meta :
          \/ Status(f)' = Status(f)
          \/ Status(f) = REGISTERED /\ Status(f)' = PROCESSING
          \/ Status(f) = PROCESSING /\ Status(f)' = COMPLETED]_vars

\* C3 witness: a file went through both transitions and a later call's
\* 0 -> 1 update on it matched no row.
C3_Witness ==
    \E p \in Procs :
        /\ call[p].pc = "merge_open"
        /\ call[p].rows_affected = 0
        /\ Status(call[p].file_id) = COMPLETED

\* The calls that have started, and whether all of them have returned.
Started == {p \in Procs : call[p].pc # "idle"}
AllReturned == Started # {} /\ \A p \in Started : call[p].pc = "done"

\* Call p has returned after delivering the bytes [from, from + len) of file
\* f to the chunk at start_offset o, unaltered, its write loop having
\* written all of them.
Delivered(p, f, o, from, len) ==
    /\ call[p].pc = "done"
    /\ call[p].file_id = f
    /\ call[p].start_offset = o
    /\ call[p].start_pos = from
    /\ call[p].content_length = len
    /\ call[p].intact
    /\ call[p].uploaded_size - call[p].start_pos = len

\* C4: when the registered checksum matches the content and every chunk of
\* the plan is uploaded in full, one call per chunk, one call after the
\* other, the file is COMPLETED and a call has returned "success".
C4_FullUploadCompletes ==
    \A f \in DOMAIN upload_file_meta :
        ( /\ upload_file_meta[f].checksum
                = Md5(IntendedContent(upload_file_meta[f].total_size))
          /\ AllReturned
          /\ \A p \in Started : call[p].serial
          /\ \A p \in Started : \E k \in ChunkKeys(f) :
                Delivered(p, f, k[2], k[2], upload_progress[k].total_size)
          /\ \A k \in ChunkKeys(f) :
                Cardinality({p \in Started :
                    Delivered(p, f, k[2], k[2], upload_progress[k].total_size)}) = 1 )
        => /\ Status(f) = COMPLETED
           /\ \E p \in Started : call[p].response.body = "success"

\* C5: the update_upload_progress of every buffer of a call whose bytes lie
\* within its chunk stores, as uploaded_size, the position reached in the
\* chunk: (start_pos - start_offset) + written.
C5_StoredSizeIsChunkPosition ==
    [][\A p \in Procs :
          LET c == call[p]
              k == <<c.file_id, c.start_offset>>
          IN  ( /\ c.pc = "commit" /\ call'[p].pc # "commit"
                /\ k \in DOMAIN upload_progress
                /\ c.start_offset <= c.start_pos
                /\ c.start_pos + c.content_length
                      <= c.start_offset + upload_progress[k].total_size )
              => upload_progress'[k].uploaded_size
                    = (c.start_pos - c.start_offset) + (c.uploaded_size - c.start_pos)]_vars

\* C6: a single-chunk file whose chunk is delivered by two successive calls,
\* bytes [0, m) and then bytes [m, total_size), is COMPLETED after the second
\* call, which returns the whole-file MD5.
C6_ResumedChunkCompletes ==
    \A f \in DOMAIN upload_file_meta : \A p, q \in Procs : \A m \in 1..MaxTotal :
        LET total_size == upload_file_meta[f].total_size
        IN  ( /\ upload_file_meta[f].checksum = Md5(IntendedContent(total_size))
              /\ ChunkKeys(f) = {<<f, 0>>}
              /\ m < total_size
              /\ p < q
              /\ Started = {p, q}
              /\ call[q].serial
              /\ Delivered(p, f, 0, 0, m)
              /\ Delivered(q, f, 0, m, total_size - m) )
            => /\ Status(f) = COMPLETED
               /\ call[q].response.body = "success"
               /\ call[q].response.checksum = Md5(IntendedContent(total_size))

\* The system_initialized row is missing or does not hold "success".
NotInitialized ==
    \/ "system_initialized" \notin DOMAIN system_config
    \/ system_config["system_initialized"] # "success"

\* C7: while system_initialized is not "success" (or is missing), a
\* submit_file_metadata or upload_file call returns SYSTEM_NOT_INITIALIZED
\* and no table row and no file changes.
C7_GateRejectsAndMutatesNothing ==
    [][NotInitialized =>
          /\ upload_file_meta' = upload_file_meta
          /\ upload_progress' = upload_progress
          /\ files' = files
          /\ submit_response' # submit_response
                => submit_response'.code = "SYSTEM_NOT_INITIALIZED"
          /\ \A p \in Procs : call'[p] # call[p] =>
                /\ call'[p].pc = "done"
                /\ call'[p].response = ErrorResponse(400, "SYSTEM_NOT_INITIALIZED")]_vars

\* C7 witness: the key is missing and both handlers have been refused.
C7_Witness ==
    /\ "system_initialized" \notin DOMAIN system_config
    /\ submit_response.code = "SYSTEM_NOT_INITIALIZED"
    /\ \E p \in Procs : call[p].response.body = "SYSTEM_NOT_INITIALIZED"

\* C8: the chunk rows of a registered file partition [0, total_size):
\* ceil(total_size / chunk_size) rows, the first at 0, each next one starting
\* right after the previous end, the last ending at total_size - 1, every
\* row of chunk_size bytes except possibly the last, the sizes summing to
\* total_size.
C8_PlanPartitionsFile ==
    \A f \in DOMAIN upload_file_meta :
        LET total_size == upload_file_meta[f].total_size
            chunk_size == DecimalValue(system_config["chunk_size"])
            keys == ChunkKeys(f)
            n == Cardinality(keys)
        IN  /\ (n - 1) * chunk_size < total_size
            /\ total_size <= n * chunk_size
            /\ <<f, 0>> \in keys
            /\ \A k \in keys :
                  LET r == upload_progress[k]
                  IN  /\ r.start_offset = k[2]
                      /\ r.start_offset <= r.end_offset
                      /\ r.end_offset <= total_size - 1
                      /\ r.total_size = r.end_offset - r.start_offset + 1
                      /\ r.total_size <= chunk_size
                      /\ r.end_offset # total_size - 1 =>
                            /\ r.total_size = chunk_size
                            /\ <<f, r.end_offset + 1>> \in keys
            /\ SumOver([k \in keys |-> upload_progress[k].total_size], keys)
                  = total_size

\* C8 witness: a registered file with several chunks, the last one shorter
\* than chunk_size.
C8_Witness ==
    \E f \in DOMAIN upload_file_meta :
        /\ Cardinality(ChunkKeys(f)) >= 2
        /\ \E k \in ChunkKeys(f) :
              upload_progress[k].total_size
                 < DecimalValue(system_config["chunk_size"])

\* C9: every chunk row has 0 <= uploaded_size <= chunk_size.
C9_UploadedSizeWithinChunk ==
    \A k \in DOMAIN upload_progress :
        /\ 0 <= upload_progress[k].uploaded_size
        /\ upload_progress[k].uploaded_size <= upload_progress[k].total_size

\* C10: the sum of uploaded_size over a file's chunks never exceeds
\* total_size, and status goes REGISTERED -> PROCESSING only from a state
\* where that sum equals total_size.
C10_SumGatesProcessing ==
    [][\A f \in DOMAIN upload_file_meta :
          /\ GetTotalUploaded(upload_progress', f) <= upload_file_meta[f].total_size
          /\ (Status(f) = REGISTERED /\ Status(f)' = PROCESSING)
                => GetTotalUploaded(upload_progress, f) = upload_file_meta[f].total_size]_vars

\* C11: an upload_file call that begins for a registered file whose status
\* is PROCESSING or COMPLETED returns an error at once; it does not go on to
\* open and write the staging file.
C11_UploadRefusedUnlessRegistered ==
    [][\A p \in Procs :
          ( /\ call[p].pc = "idle"
            /\ call'[p].pc # "idle"
            /\ CheckSystemInitialized(system_config)
            /\ call'[p].file_id \in DOMAIN upload_file_meta
            /\ Status(call'[p].file_id) # REGISTERED )
          => /\ call'[p].pc = "done"
             /\ call'[p].response.http \notin {0, 200}]_vars

\* Every started call has returned, the calls ran one after the other, and
\* each chunk of f's plan was delivered in full by exactly one of them.
EveryChunkDeliveredOnce(f) ==
    /\ AllReturned
    /\ \A p \in Started : call[p].serial
    /\ \A p \in Started : \E k \in ChunkKeys(f) :
          Delivered(p, f, k[2], k[2], upload_progress[k].total_size)
    /\ \A k \in ChunkKeys(f) :
          Cardinality({p \in Started :
              Delivered(p, f, k[2], k[2], upload_progress[k].total_size)}) = 1

\* C12: when every chunk was uploaded and the completing call returned the
\* MD5 mismatch error (HTTP 500), the file is PROCESSING with an empty
\* file_path, no staging file of it is left and the final file is on disk.
C12_MismatchLeavesProcessingCleaned ==
    \A f \in DOMAIN upload_file_meta : \A p \in Procs :
        ( /\ EveryChunkDeliveredOnce(f)
          /\ call[p].pc = "done"
          /\ call[p].file_id = f
          /\ call[p].response = ErrorResponse(500, "File is corrupted: MD5 hash mismatch") )
        => /\ Status(f) = PROCESSING
           /\ upload_file_meta[f].file_path = <<>>
           /\ \A k \in ChunkKeys(f) :
                 ChunkFilePath(upload_file_meta[f].filename, k[2]) \notin DOMAIN files
           /\ FinalFilePath(upload_file_meta[f].filename) \in DOMAIN files

\* C13: in every reachable state a file's file_path is non-empty exactly
\* when its status is COMPLETED; a COMPLETED file's path is its final path.
C13_PathSetIffCompleted ==
    \A f \in DOMAIN upload_file_meta :
        /\ (upload_file_meta[f].file_path # <<>>) <=> (Status(f) = COMPLETED)
        /\ Status(f) = COMPLETED =>
              upload_file_meta[f].file_path
                 = FinalFilePath(upload_file_meta[f].filename)

\* C13 witness: a file was published, and a later call's REGISTERED ->
\* PROCESSING update with the empty path ran against it.
C13_Witness ==
    \E p \in Procs :
        /\ call[p].pc \in {"merge_loop", "hash", "publish"}
        /\ call[p].rows_affected = 0
        /\ call[p].file_id \in DOMAIN upload_file_meta
        /\ Status(call[p].file_id) = COMPLETED
        /\ upload_file_meta[call[p].file_id].file_path # <<>>

\* C14: a file's file_path changes only from empty, in the step that takes
\* the file from PROCESSING to COMPLETED, and the row of a COMPLETED file never
\* changes again: a repeated PROCESSING -> COMPLETED update leaves it as it is.
C14_PathPublishedOnce ==
    [][\A f \in DOMAIN upload_file_meta :
          /\ upload_file_meta'[f].file_path # upload_file_meta[f].file_path
                => /\ upload_file_meta[f].file_path = <<>>
                   /\ Status(f) = PROCESSING
                   /\ Status(f)' = COMPLETED
          /\ Status(f) = COMPLETED => upload_file_meta'[f] = upload_file_meta[f]]_vars

\* C14 witness: two calls have run the PROCESSING -> COMPLETED update on the
\* same file and returned "success".
C14_Witness ==
    \E p, q \in Procs :
        /\ p # q
        /\ call[p].pc = "done" /\ call[q].pc = "done"
        /\ call[p].file_id = call[q].file_id
        /\ call[p].response.body = "success"
        /\ call[q].response.body = "success"

RECURSIVE StridedContent(_, _)
\* What merge_chunks writes from `start` on when each staging file it visits
\* holds the content's bytes of its chunk: the bytes of the chunk rows of f
\* at start, start + MergeStep, ... below total_size.
StridedContent(f, start) ==
    IF start >= upload_file_meta[f].total_size \/ <<f, start>> \notin DOMAIN upload_progress
    THEN <<>>
    ELSE [i \in 1..upload_progress[<<f, start>>].total_size |-> IntendedByte(start + i - 1)]
         \o StridedContent(f, start + MergeStep)

\* C15: once every chunk of a file was uploaded in full, each by one call, in
\* whatever order, the final file's bytes and the completing call's result
\* are the same: they depend on the registration and the content only.
C15_OrderDoesNotMatter ==
    \A f \in DOMAIN upload_file_meta :
        EveryChunkDeliveredOnce(f) =>
            LET final_path == FinalFilePath(upload_file_meta[f].filename)
                whole == StridedContent(f, 0)
            IN  /\ final_path \in DOMAIN files
                /\ files[final_path].data = whole
                /\ \E p \in Started :
                      call[p].response =
                         IF Md5(whole) = upload_file_meta[f].checksum
                         THEN Response(200, "success",
                                       upload_file_meta[f].total_size, Md5(whole))
                         ELSE ErrorResponse(500, "File is corrupted: MD5 hash mismatch")

\* C15 witness: a file of two chunks whose second chunk was uploaded first.
C15_Witness ==
    \E f \in DOMAIN upload_file_meta : \E p, q \in Procs :
        /\ EveryChunkDeliveredOnce(f)
        /\ p < q
        /\ call[p].start_offset > call[q].start_offset
        /\ FinalFilePath(upload_file_meta[f].filename) \in DOMAIN files

\* C16: after a call delivered bytes [a, b) of a chunk and a later call
\* delivered bytes [a2, b) of the same content again, a <= a2 < b, the staging
\* file holds the content's bytes over [a2, b), and the final file is there
\* exactly when the first call assembled it, with the bytes it had then.
C16_ReuploadKeepsBytes ==
    \A f \in DOMAIN upload_file_meta : \A p, q \in Procs : \A k \in ChunkKeys(f) :
      \A a, a2 \in 0..MaxTotal : \A b \in 1..(MaxTotal + 1) :
        ( /\ p < q
          /\ Started = {p, q}
          /\ call[q].serial
          /\ k[2] <= a /\ a <= a2 /\ a2 < b
          /\ b <= k[2] + upload_progress[k].total_size
          /\ Delivered(p, f, k[2], a, b - a)
          /\ Delivered(q, f, k[2], a2, b - a2) )
        => LET chunk_path == ChunkFilePath(upload_file_meta[f].filename, k[2])
               final_path == FinalFilePath(upload_file_meta[f].filename)
           IN  /\ chunk_path \in DOMAIN files =>
                     /\ Len(files[chunk_path].data) >= b - k[2]
                     /\ \A i \in (a2 - k[2] + 1)..(b - k[2]) :
                           files[chunk_path].data[i] = IntendedByte(k[2] + i - 1)
               /\ final_path \in DOMAIN files
                     <=> call[p].response.body # "range_success"
               /\ final_path \in DOMAIN files =>
                     files[final_path].data = StridedContent(f, 0)

\* C16 witness: bytes [0, 2) were uploaded and assembled, then bytes [1, 2)
\* were uploaded again; the staging file and the final file both exist.
C16_Witness ==
    \E f \in DOMAIN upload_file_meta : \E p, q \in Procs :
        /\ p < q
        /\ Started = {p, q}
        /\ call[q].serial
        /\ Delivered(p, f, 0, 0, 2)
        /\ Delivered(q, f, 0, 1, 1)
        /\ ChunkFilePath(upload_file_meta[f].filename, 0) \in DOMAIN files
        /\ FinalFilePath(upload_file_meta[f].filename) \in DOMAIN files

\* C17: every upload_file_meta row has exactly the chunk rows of its plan and
\* every chunk row belongs to an upload_file_meta row; a submit_file_metadata
\* call that does not return success leaves both tables as they were.
C17_RegistrationIsAtomic ==
    /\ [](/\ \A f \in DOMAIN upload_file_meta :
                /\ FetchChunkSize(system_config).ok
                /\ FetchChunkSize(system_config).v > 0
                /\ ChunkKeys(f) =
                      {<<f, (j - 1) * FetchChunkSize(system_config).v>> :
                          j \in 1..NumChunks(upload_file_meta[f].total_size,
                                             FetchChunkSize(system_config).v)}
          /\ \A k \in DOMAIN upload_progress : k[1] \in DOMAIN upload_file_meta)
    /\ [][submit_response'.http # 200 =>
             /\ upload_file_meta' = upload_file_meta
             /\ upload_progress' = upload_progress]_vars

\* C17 witness: a registration has committed with several chunk rows and a
\* later call has failed.
C17_Witness ==
    /\ \E f \in DOMAIN upload_file_meta : Cardinality(ChunkKeys(f)) >= 2
    /\ submit_response.http = 500
    /\ submit_response.code \in {"Failed to initialize upload progress",
                                 "COMMIT_TRANSACTION_ERROR"}

\* C18: get_upload_status of a registered file returns "processing" when
\* its status is PROCESSING, "completed" when it is COMPLETED, and otherwise
\* "paused" when every chunk row's last_updated is more than 60 seconds
\* before now, "uploading" when some row is not.
C18_StatusLabel ==
    [][status_response' # status_response =>
          LET f == status_response'.file_id
          IN  f \in DOMAIN upload_file_meta =>
                status_response'.status =
                   IF Status(f) = PROCESSING THEN "processing"
                   ELSE IF Status(f) = COMPLETED THEN "completed"
                   ELSE IF \A k \in ChunkKeys(f) :
                              clock - upload_progress[k].last_updated > StaleSeconds
                        THEN "paused"
                        ELSE "uploading"]_vars

\* C19: the update_upload_progress of an upload call leaves the chunk row's
\* last_updated at the current time.
C19_CommitStampsLastUpdated ==
    [][\A p \in Procs :
          LET k == <<call[p].file_id, call[p].start_offset>>
          IN  ( /\ call[p].pc = "commit"
                /\ call'[p].pc # "commit"
                /\ k \in DOMAIN upload_progress )
              => upload_progress'[k].last_updated = clock]_vars

C21_UnknownChunkRejected ==
    [][\A p \in Procs :
          ( /\ call'[p] # call[p]
            /\ CheckSystemInitialized(system_config)
            /\ call'[p].file_id \in DOMAIN upload_file_meta
            /\ <<call'[p].file_id, call'[p].start_offset>> \notin DOMAIN upload_progress )
          => /\ call'[p].pc = "done"
             /\ call'[p].response.http \notin {0, 200}
             /\ files' = files
             /\ upload_file_meta' = upload_file_meta
             /\ upload_progress' = upload_progress]_vars

\* C22: a call writes to the staging file of a chunk row only when
\* start_offset <= start_pos and start_pos + content_length <= start_offset +
\* chunk_size, and so the staging file of a chunk row never holds more bytes
\* than the chunk has.
C22_WriteWithinChunkRange ==
    /\ [](\A k \in DOMAIN upload_progress :
            LET path == ChunkFilePath(upload_progress[k].filename, k[2])
            IN  path \in DOMAIN files =>
                   Len(files[path].data) <= upload_progress[k].total_size)
    /\ [][\A p \in Procs :
            LET c == call[p]
                k == <<c.file_id, c.start_offset>>
            IN  ( /\ c.pc = "read" /\ call'[p].pc = "commit"
                  /\ k \in DOMAIN upload_progress )
                => /\ c.start_offset <= c.start_pos
                   /\ c.start_pos + c.content_length
                         <= c.start_offset + upload_progress[k].total_size]_vars

\* C23: no upload_file_meta row has total_size 0 or an empty filename, and no
\* submit_file_metadata call answers success without a chunk: a registration
\* with total_size = 0 or a filename that sanitizes to the empty string is
\* refused and inserts nothing.
C23_EmptyRegistrationRefused ==
    /\ \A f \in DOMAIN upload_file_meta :
          /\ upload_file_meta[f].total_size > 0
          /\ upload_file_meta[f].filename # <<>>
    /\ submit_response.http = 200 => submit_response.chunks # <<>>

\* C24: when the chunk_size row is missing, or its value is not a positive
\* integer, submit_file_metadata does not fail on it: no call returns
\* FETCH_CHUNK_SIZE_ERROR or panics, and a call that succeeds plans the chunks
\* with chunk_size = 1048576.
C24_DefaultChunkSize ==
    LET cs == FetchChunkSize(system_config)
    IN  (~cs.ok \/ cs.v = 0) =>
           /\ submit_response.code \notin {"FETCH_CHUNK_SIZE_ERROR", "panic"}
           /\ submit_response.http = 200 =>
                 submit_response.chunks =
                    PlanChunks(upload_file_meta[submit_response.file_id].total_size,
                               1048576)

\* Call p has returned with a payload error after its write loop wrote and
\* committed the first m bytes of a body of more than m bytes, the bytes
\* [from, from + m) of file f, to the chunk at start_offset o.
Interrupted(p, f, o, from, m) ==
    /\ call[p].pc = "done"
    /\ call[p].response = ErrorResponse(500, "Payload error")
    /\ call[p].file_id = f
    /\ call[p].start_offset = o
    /\ call[p].start_pos = from
    /\ call[p].intact
    /\ call[p].uploaded_size - call[p].start_pos = m
    /\ call[p].content_length > m

\* C25: the step in which a call's body stream fails changes no file and no
\* row (the status included) and the call returns an error; after it the
\* staging file holds the bytes written so far and the chunk row the
\* uploaded_size and digest of the last commit; and when a later call delivers
\* the rest of the chunk from the offset reached, the staging file holds the
\* content's bytes over the whole range.
C25_InterruptedCallKeepsProgress ==
    /\ [](\A f \in DOMAIN upload_file_meta : \A p, q \in Procs :
          \A k \in ChunkKeys(f) : \A a, m \in 0..MaxTotal : \A b \in 1..(MaxTotal + 1) :
            LET chunk_path == ChunkFilePath(upload_file_meta[f].filename, k[2])
                Holds(from, to) ==
                    /\ chunk_path \in DOMAIN files
                    /\ Len(files[chunk_path].data) >= to - k[2]
                    /\ \A i \in (from - k[2] + 1)..(to - k[2]) :
                          files[chunk_path].data[i] = IntendedByte(k[2] + i - 1)
            IN  /\ ( /\ Started = {p}
                     /\ k[2] <= a
                     /\ a + m < k[2] + upload_progress[k].total_size
                     /\ Interrupted(p, f, k[2], a, m) )
                   => /\ Status(f) = REGISTERED
                      /\ upload_progress[k].uploaded_size = m
                      /\ upload_progress[k].checksum =
                            IF m = 0 THEN EmptyChecksum
                            ELSE Sha256(BodyBytes(TRUE, a, 0, m))
                      /\ m > 0 => Holds(a, a + m)
                /\ ( /\ p < q
                     /\ Started = {p, q}
                     /\ call[q].serial
                     /\ k[2] <= a /\ m >= 1 /\ a + m < b
                     /\ b <= k[2] + upload_progress[k].total_size
                     /\ Interrupted(p, f, k[2], a, m)
                     /\ Delivered(q, f, k[2], a + m, b - (a + m)) )
                   => Holds(a, b))
    /\ [][\A p \in Procs :
            (call[p].pc = "read" /\ call'[p].pc = "done")
            => /\ call'[p].response.http = 500
               /\ files' = files
               /\ upload_file_meta' = upload_file_meta
               /\ upload_progress' = upload_progress]_vars

\* C25 witness: a call for the chunk [0, 2) failed after its first byte, the
\* next call delivered byte 1, and the staging file holds both bytes.
C25_Witness ==
    \E f \in DOMAIN upload_file_meta : \E p, q \in Procs :
        /\ p < q
        /\ Started = {p, q}
        /\ call[q].serial
        /\ Interrupted(p, f, 0, 0, 1)
        /\ Delivered(q, f, 0, 1, 1)
        /\ ChunkFilePath(upload_file_meta[f].filename, 0) \in DOMAIN files
        /\ files[ChunkFilePath(upload_file_meta[f].filename, 0)].data
              = IntendedContent(2)

\* C26: a call within its chunk's range that returned "range_success"
\* reports as size the number of bytes it uploaded and as checksum the SHA-256
\* of those bytes; one that returned "success" reports size = total_size and
\* the whole-file MD5.
C26_ResponseReportsThisCall ==
    \A p \in Procs :
        LET c == call[p]
            written == c.uploaded_size - c.start_pos
            k == <<c.file_id, c.start_offset>>
        IN  ( /\ c.pc = "done" /\ c.response.http = 200
              /\ k \in DOMAIN upload_progress
              /\ c.start_offset <= c.start_pos
              /\ c.start_pos + c.content_length
                    <= c.start_offset + upload_progress[k].total_size ) =>
               /\ c.response.body \in {"range_success", "success"}
               /\ c.response.body = "range_success" =>
                     /\ c.response.size = written
                     /\ c.response.checksum =
                           Sha256(BodyBytes(c.intact, c.start_pos, 0, written))
               /\ c.response.body = "success" =>
                     /\ c.response.size = upload_file_meta[c.file_id].total_size
                     /\ c.response.checksum = upload_file_meta[c.file_id].checksum

\* C27: a download_file call returns bytes only for a COMPLETED file, and
\* then those of its final file; for a REGISTERED or PROCESSING file it
\* returns an error and no bytes, whatever staging files and final file are
\* on disk.
C27_DownloadOnlyWhenCompleted ==
    [][download_response' # download_response =>
          LET r == download_response'
              f == r.file_id
          IN  /\ r.http = 200 =>
                    /\ f \in DOMAIN upload_file_meta
                    /\ Status(f) = COMPLETED
                    /\ r.path = FinalFilePath(upload_file_meta[f].filename)
                    /\ r.data = files[r.path].data
              /\ (f \in DOMAIN upload_file_meta /\ Status(f) # COMPLETED) =>
                    /\ r.http = 500
                    /\ r.data = <<>>]_vars

\* C27 witness: a download was refused for a file that was PROCESSING at the
\* time, and the file's assembly has reached the hashing step with the final
\* file on disk.
C27_Witness ==
    /\ download_response.http = 500
    /\ download_response.status = PROCESSING
    /\ \E p \in Procs :
          /\ call[p].pc = "hash"
          /\ call[p].file_id = download_response.file_id
          /\ FinalFilePath(call[p].filename) \in DOMAIN files

RECURSIVE StagedBytes(_, _, _)
\* The bytes of the staging files that directory fs holds for the chunk rows
\* `keys` of file f, in ascending start_offset order.
StagedBytes(fs, f, keys) ==
    IF keys = {} THEN <<>>
    ELSE LET k == CHOOSE x \in keys : \A y \in keys : x[2] <= y[2]
             path == ChunkFilePath(upload_file_meta[f].filename, k[2])
         IN  (IF path \in DOMAIN fs THEN fs[path].data ELSE <<>>)
             \o StagedBytes(fs, f, keys \ {k})

\* C28: when the loop of merge_chunks ends, no other call being under way,
\* the staging files of all the file's chunk rows have been consumed: the
\* last iteration leaves the final file with the bytes it had followed by
\* those of the staging files still there, in start_offset order, and no
\* staging file of a chunk row is left.
C28_MergeConsumesThePlan ==
    [][\A p \in Procs :
          LET f == call[p].file_id
              final_path == FinalFilePath(upload_file_meta[f].filename)
          IN  ( /\ call[p].pc = "merge_loop"
                /\ call'[p].pc = "hash"
                /\ \A q \in Procs \ {p} : call[q].pc \in {"idle", "done"} )
              => /\ \A k \in ChunkKeys(f) :
                       ChunkFilePath(upload_file_meta[f].filename, k[2])
                          \notin DOMAIN files'
                 /\ files'[final_path].data
                       = WriteAt(files[final_path].data, call[p].final_pos,
                                 StagedBytes(files, f, ChunkKeys(f)))]_vars

\* The steps of assembly: merge_chunks and the hashing of the final file.
InAssembly(p) == call[p].pc \in {"merge_open", "merge_loop", "hash"}

\* C29: when a call's assembly fails (it returns an error from merge_chunks,
\* from hashing the final file or from the digest comparison), the file is
\* PROCESSING with an empty file_path right after.
C29_FailedAssemblyLeavesProcessing ==
    [][\A p \in Procs :
          LET f == call[p].file_id
          IN  ( /\ InAssembly(p)
                /\ call'[p].pc = "done"
                /\ call'[p].response.http # 200 )
              => /\ Status(f)' = PROCESSING
                 /\ upload_file_meta'[f].file_path = <<>>]_vars

\* C30: a call on a chunk row that goes on to the write loop has
\* 0 <= start_pos - start_offset < chunk_size, and no call on a chunk row stops
\* on the subtraction: a call without Content-Range on a chunk whose
\* start_offset is above 0 goes on to write.
C30_SeekOffsetWithinChunk ==
    [][\A p \in Procs :
          LET c == call[p]
              k == <<c.file_id, c.start_offset>>
          IN  ( /\ c.pc = "open"
                /\ call'[p].pc # "open"
                /\ k \in DOMAIN upload_progress )
              => /\ call'[p].pc = "read" =>
                       /\ 0 <= c.start_pos - c.start_offset
                       /\ c.start_pos - c.start_offset < upload_progress[k].total_size
                 /\ (c.start_pos = 0 /\ c.start_offset > 0) => call'[p].pc = "read"]_vars

\* The positions of a call at which the locals of its write loop are live.
AfterOpen(p) ==
    call[p].pc \in {"read", "commit", "total", "cas", "merge_open", "merge_loop", "hash"}

\* C31: in every state of a call the bytes it has written to the staging
\* file and fed to the hasher are the same number, at most content_length,
\* and below content_length whenever the call waits for another buffer; a
\* buffer's write never extends the staging file beyond the seek offset plus
\* content_length.
C31_WritesWithinContentLength ==
    /\ [](\A p \in Procs :
            LET c == call[p]
                written == c.uploaded_size - c.start_pos
            IN  /\ (AfterOpen(p) \/ c.pc = "done") =>
                      (0 <= written /\ written <= c.content_length)
                /\ AfterOpen(p) => Len(c.hashed) = written
                /\ c.pc = "read" => written < c.content_length)
    /\ [][\A p \in Procs :
            LET c == call[p]
                path == ChunkFilePath(c.filename, c.start_offset)
                end == (c.start_pos - c.start_offset) + c.content_length
            IN  (c.pc = "read" /\ call'[p].pc = "commit" /\ path \in DOMAIN files)
                => /\ path \in DOMAIN files'
                   /\ Len(files'[path].data) <=
                         IF Len(files[path].data) > end
                         THEN Len(files[path].data) ELSE end]_vars

\* C31 witness: a call has left its write loop with content_length = 2 bytes
\* written and hashed, the last of them taken from a second buffer.
C31_Witness ==
    \E p \in Procs :
        /\ call[p].pc = "total"
        /\ call[p].content_length = 2
        /\ call[p].uploaded_size - call[p].start_pos = 2
        /\ Len(call[p].hashed) = 2
        /\ <<call[p].file_id, call[p].start_offset>> \in DOMAIN upload_progress

\* The bytes call p has written that the stored uploaded_size of its chunk
\* row does not cover.
Uncommitted(p) ==
    (call[p].uploaded_size - call[p].start_pos)
        - upload_progress[<<call[p].file_id, call[p].start_offset>>].uploaded_size

InWriteLoop(p) == call[p].pc \in {"open", "read", "commit"}

\* C33: a step that a call for (file_id, start_offset) takes between opening
\* its staging file and leaving its write loop leaves every other chunk row,
\* every other file on disk, the file records and the merge count as they
\* were, whatever the other calls are doing.
C33_WriteLoopTouchesOwnChunkOnly ==
    [][\A p \in Procs :
        LET c == call[p]
            own == <<c.file_id, c.start_offset>>
            path == ChunkFilePath(c.filename, c.start_offset)
        IN  (InWriteLoop(p) /\ call'[p] # c)
            => /\ DOMAIN upload_progress' = DOMAIN upload_progress
               /\ \A k \in DOMAIN upload_progress \ {own} :
                     upload_progress'[k] = upload_progress[k]
               /\ DOMAIN files' \subseteq DOMAIN files \cup {path}
               /\ \A f \in DOMAIN files \ {path} :
                     f \in DOMAIN files' /\ files'[f] = files[f]
               /\ upload_file_meta' = upload_file_meta
               /\ merges' = merges]_vars

\* C33 witness: two calls on different chunks of one file are both between a
\* write and its commit, and both chunk rows exist.
C33_Witness ==
    \E p, q \in Procs :
        /\ call[p].pc = "commit" /\ call[q].pc = "commit"
        /\ call[p].file_id = call[q].file_id
        /\ call[p].start_offset # call[q].start_offset
        /\ <<call[p].file_id, call[p].start_offset>> \in DOMAIN upload_progress
        /\ <<call[q].file_id, call[q].start_offset>> \in DOMAIN upload_progress

\* C34: with the calls made one after another, when merge_chunks has opened
\* the final file it is empty, and when its loop has ended the final file holds no byte
\* beyond those the loop wrote.
C34_AssemblyStartsFromEmptyFile ==
    [][\A p \in Procs :
        LET c == call[p]
            path == FinalFilePath(c.filename)
        IN  (/\ \A q \in Procs : call[q].serial
             /\ \A q \in Procs \ {p} : call[q].pc \in {"idle", "done"})
            => /\ (c.pc = "merge_open" /\ call'[p].pc \in {"merge_loop", "hash"})
                  => files'[path].data = <<>>
               /\ (c.pc = "merge_loop" /\ call'[p].pc = "hash")
                  => Len(files'[path].data) = call'[p].final_pos]_vars

\* Call p has returned from an upload of the whole chunk of f at start_offset
\* o, its write loop having written all len bytes.
LoopFinished(p, f, o, len) ==
    /\ call[p].pc = "done"
    /\ call[p].file_id = f
    /\ call[p].start_offset = o
    /\ call[p].start_pos = o
    /\ call[p].content_length = len
    /\ call[p].uploaded_size - call[p].start_pos = len

\* Every started call has returned, each of them uploaded one whole chunk of
\* f, and each chunk of f was uploaded by exactly one of them; the calls may
\* have overlapped in any way.
EveryChunkUploadedOnce(f) ==
    /\ AllReturned
    /\ \A p \in Started : \E k \in ChunkKeys(f) :
          LoopFinished(p, f, k[2], upload_progress[k].total_size)
    /\ \A k \in ChunkKeys(f) :
          Cardinality({p \in Started :
              LoopFinished(p, f, k[2], upload_progress[k].total_size)}) = 1

\* C36: when the chunks of a file were uploaded one call per chunk, in any
\* interleaving, and all calls have returned, the assembly was run at least
\* once, the file is no longer REGISTERED and not every call answered
\* "range_success".
C36_ConcurrentChunksTriggerAssembly ==
    \A f \in DOMAIN upload_file_meta :
        EveryChunkUploadedOnce(f)
        => /\ merges[f] >= 1
           /\ Status(f) # REGISTERED
           /\ \E p \in Started : call[p].response.body # "range_success"

\* C36 witness: two overlapping calls have uploaded the two chunks of a file
\* and returned.
C36_Witness ==
    \E f \in DOMAIN upload_file_meta :
        /\ EveryChunkUploadedOnce(f)
        /\ Cardinality(ChunkKeys(f)) = 2
        /\ \E p \in Started : ~call[p].serial

\* What a call answers when its assembly has failed: merge_chunks returned an
\* error, or the final file could not be hashed, or its MD5 differs.
AssemblyFailures ==
    {ErrorResponse(500, "Failed to create final file"),
     ErrorResponse(500, "Failed to open chunk file"),
     ErrorResponse(500, "Failed to open final file for hashing"),
     ErrorResponse(500, "File is corrupted: MD5 hash mismatch")}

\* File f is PROCESSING, a call on it has returned an assembly failure, no
\* call overlapped another one and no call is in flight except p.
LeftProcessing(f, p) ==
    /\ f \in DOMAIN upload_file_meta
    /\ Status(f) = PROCESSING
    /\ \E q \in Procs \ {p} :
          /\ call[q].pc = "done"
          /\ call[q].file_id = f
          /\ call[q].response \in AssemblyFailures
    /\ \A q \in Procs : call[q].serial
    /\ \A q \in Procs \ {p} : call[q].pc \in {"idle", "done"}

\* C38: once a failed assembly has left a file PROCESSING, every step of a
\* later upload call on it keeps the file PROCESSING, runs no merge on it and
\* leaves its final file as it was.
C38_FailedFileStaysProcessing ==
    [][\A p \in Procs :
        LET f == call[p].file_id
            path == FinalFilePath(call[p].filename)
        IN  (LeftProcessing(f, p) /\ call'[p] # call[p])
            => /\ Status(f)' = PROCESSING
               /\ merges'[f] = merges[f]
               /\ path \in DOMAIN files =>
                     (path \in DOMAIN files' /\ files'[path] = files[path])]_vars

\* The file_id of the call that created the file at `path`.
Creator(path) == call[files[path].ino].file_id

\* C35: a step of an upload call for one file_id leaves every file on disk
\* that a call for a different file_id created in place and unchanged, and
\* the bytes a merge or a digest takes in come from files its own file_id
\* created.
C35_NoCrossFileInterference ==
    [][\A p \in Procs :
        LET c == call[p]
            theirs == {path \in DOMAIN files : Creator(path) # c.file_id}
        IN  (c.pc \notin {"idle", "done"} /\ call'[p] # c)
            => /\ \A path \in theirs :
                     path \in DOMAIN files' /\ files'[path] = files[path]
               /\ c.pc = "merge_loop"
                     => ChunkFilePath(c.filename, c.merge_start) \notin theirs
               /\ c.pc = "hash" => FinalFilePath(c.filename) \notin theirs]_vars

\* C37: for the resuming client, no step lowers the stored uploaded_size of
\* a chunk row.
C37_StoredSizeNeverDecreases ==
    [][\A k \in DOMAIN upload_progress :
          /\ k \in DOMAIN upload_progress'
          /\ upload_progress'[k].uploaded_size >= upload_progress[k].uploaded_size]_vars

\* C39: whatever page and page_size a get_uploaded_files call was given,
\* page = 0 included, the offset it computed is the exact value of
\* (page - 1) * page_size: the handler did not panic and the arithmetic did
\* not wrap.
C39_OffsetArithmeticExact ==
    list_response # NoListResponse =>
        /\ list_response.arith = "exact"
        /\ list_response.page # U32Zero

====
